---------------------------- MODULE Spec2Model ----------------------------
(***************************************************************************)
(* The catalogue service: CatalogueServiceApp (an Express application over *)
(* a MongoDB collection), its connect-retry loop and its seven GET routes. *)
(*                                                                         *)
(* The repository holds two variants of the application class:             *)
(*   "app"     src/catalogue/src/app.js  (required by server.js and tests) *)
(*   "unnamed" src/unnamed/part_000      (plain logging, sends e on error) *)
(* The variable impl says which one a behaviour runs.                      *)
(*                                                                         *)
(* Node runs every callback to completion, so one action is one callback:  *)
(* the synchronous part of a handler up to its first await, a timer        *)
(* callback, or the continuation of an await when the store answers.       *)
(***************************************************************************)
EXTENDS Integers, Sequences, FiniteSets, TLC

VARIABLES
    impl,            \* which source file the behaviour runs
    mockCollections, \* constructor option: TRUE when a mock collection is supplied
    products,        \* the documents of the store's products collection, in natural order
    mongoConnected,  \* this.mongoConnected
    collection,      \* this.collection: "undefined" or a handle
    supPc,           \* position of the connect-retry loop
    attempts,        \* calls of MongoClient.connect so far
    failures,        \* rejected connects so far
    logger,          \* this.logger: counts of the loop's log events
    loop,            \* the loop's pending work: connects in flight, retry timers
    writes,          \* assignments to mongoConnected and collection after construction
    process,         \* "running", or "exited" after an uncaught rejection ended Node
    unhandled,       \* number of promise rejections nothing caught
    req              \* the requests: one record per connection

vars == <<impl, mockCollections, products, mongoConnected, collection,
          supPc, attempts, failures, logger, loop, writes, process, unhandled, req>>

(***************************************************************************)
(* Bounds of the model.                                                    *)
(***************************************************************************)
\* longest product collection drawn at Init
MaxProducts == 2
\* connect attempts after which the store stops refusing connections
MaxAttempts == 3

\* setTimeout(tryConnect, 2000): the backoff in milliseconds
BackoffMs == 2000

\* the connections a client may hold open at once
ReqIds == {"r1", "r2"}

Impls == {"app", "unnamed"}

(***************************************************************************)
(* Data: products as the test fixture shapes them.  name is the rank of    *)
(* the name string in collation order; terms are the words the text index  *)
(* holds for the document.                                                 *)
(***************************************************************************)
P1 == [sku |-> "sku1", name |-> 2, categories |-> <<"cat1">>,         terms |-> {"robot"}]
P2 == [sku |-> "sku2", name |-> 1, categories |-> <<"cat1", "cat2">>, terms |-> {"robot", "droid"}]
P3 == [sku |-> "sku3", name |-> 3, categories |-> <<"cat2">>,         terms |-> {"droid"}]

ProductUniverse == {P1, P2, P3}

\* collections: sequences of distinct products, at most MaxProducts long
Collections ==
    { s \in UNION { [1..n -> ProductUniverse] : n \in 0..MaxProducts } :
        \A i, j \in DOMAIN s : i # j => s[i].sku # s[j].sku }

Skus   == {"sku1", "sku2"}
Cats   == {"cat1", "cat2"}
Texts  == {"robot", "droid"}

\* Error objects a rejected driver call can carry.  message is not enumerable
\* (JSON.stringify leaves it out); code stands for the enumerable own
\* properties the driver copies from a server reply (0: none).
ErrNetwork == [message |-> "connection closed", code |-> 0]
ErrServer  == [message |-> "cursor killed",     code |-> 43]
Errors == {ErrNetwork, ErrServer}
\* TypeError of calling a method of undefined
ErrType == [message |-> "cannot read properties of undefined", code |-> 0]
\* logError(req, res, null, ...)
NullErr == [message |-> "null", code |-> 0]
\* a log record that carries no err field
NoErr   == [message |-> "", code |-> 0]

Routes == {"/health", "/products", "/product/:sku", "/products/:cat",
           "/categories", "/search", "/search/:text"}

ParamsOf(route) ==
    CASE route = "/product/:sku"  -> Skus
      [] route = "/products/:cat" -> Cats
      [] route = "/search/:text"  -> Texts
      [] OTHER                    -> {""}

(***************************************************************************)
(* The store: what the driver answers for a query on the collection.       *)
(* The store is outside the service; find, findOne, sort and distinct are  *)
(* given MongoDB's meaning on the documents of products.                   *)
(***************************************************************************)
NoQuery == [op |-> "none", filter |-> "", arg |-> "", sort |-> "none"]

\* collection.find({}).toArray()
FindAllQuery == [op |-> "find", filter |-> "all", arg |-> "", sort |-> "none"]

\* GET /products
ProductsQuery == FindAllQuery

\* collection.findOne({ sku: req.params.sku })
SkuQueryAny(sku) == [op |-> "findOne", filter |-> "all", arg |-> sku, sort |-> "none"]
SkuQuery(sku) == [op |-> "findOne", filter |-> "sku", arg |-> sku, sort |-> "none"]

\* collection.find({ categories: req.params.cat }).sort({ name: 1 }).toArray()
CategoryQueryUnsorted(cat) == [op |-> "find", filter |-> "categories", arg |-> cat, sort |-> "none"]
CategoryQuery(cat) == [op |-> "find", filter |-> "categories", arg |-> cat, sort |-> "name"]

\* collection.distinct('categories')
CategoriesQuery == [op |-> "distinct", filter |-> "all", arg |-> "categories", sort |-> "none"]

\* GET /search
SearchQueryEmptyText == [op |-> "find", filter |-> "text", arg |-> "", sort |-> "none"]
SearchQuery == FindAllQuery

\* collection.find({ $text: { $search: req.params.text } }).toArray()
TextQuery(text) == [op |-> "find", filter |-> "text", arg |-> text, sort |-> "none"]

QueryOf(route, param) ==
    CASE route = "/products"      -> ProductsQuery
      [] route = "/product/:sku"  -> SkuQuery(param)
      [] route = "/products/:cat" -> CategoryQuery(param)
      [] route = "/categories"    -> CategoriesQuery
      [] route = "/search"        -> SearchQuery
      [] route = "/search/:text"  -> TextQuery(param)
      [] OTHER                    -> NoQuery

InSeq(x, s) == \E k \in DOMAIN s : s[k] = x

\* does document p satisfy the filter of query q
Matches(p, q) ==
    CASE q.filter = "all"        -> TRUE
      [] q.filter = "sku"        -> p.sku = q.arg
      [] q.filter = "categories" -> InSeq(q.arg, p.categories)
      [] q.filter = "text"       -> q.arg \in p.terms
      [] OTHER                   -> FALSE

RECURSIVE Filter(_, _)
Filter(docs, q) ==
    IF docs = <<>> THEN <<>>
    ELSE IF Matches(Head(docs), q)
         THEN <<Head(docs)>> \o Filter(Tail(docs), q)
         ELSE Filter(Tail(docs), q)

\* insert p into the name-sorted sequence s
RECURSIVE InsertByName(_, _)
InsertByName(p, s) ==
    IF s = <<>> THEN <<p>>
    ELSE IF p.name < Head(s).name
         THEN <<p>> \o s
         ELSE <<Head(s)>> \o InsertByName(p, Tail(s))

\* cursor.sort({ name: 1 })
RECURSIVE SortByName(_)
SortByName(s) ==
    IF s = <<>> THEN <<>> ELSE InsertByName(Head(s), SortByName(Tail(s)))

\* append the values of xs that acc does not hold yet
RECURSIVE AddNew(_, _)
AddNew(acc, xs) ==
    IF xs = <<>> THEN acc
    ELSE AddNew(IF InSeq(Head(xs), acc) THEN acc ELSE Append(acc, Head(xs)), Tail(xs))

\* the distinct values of the categories arrays
RECURSIVE Distinct(_)
Distinct(docs) ==
    IF docs = <<>> THEN <<>>
    ELSE AddNew(<<>>, Head(docs).categories \o Distinct(Tail(docs)))

\* A value that travels as a reply or a body is tagged with its kind, so that
\* two of them are compared kind first.
Val(kind, val) == [kind |-> kind, val |-> val]
NoBody == Val("none", "")
SameVal(a, b) == a.kind = b.kind /\ a.val = b.val

\* what a query resolves to on the documents docs
Eval(q, docs) ==
    LET hits == Filter(docs, q) IN
    CASE q.op = "find"     -> Val("products", IF q.sort = "name" THEN SortByName(hits) ELSE hits)
      [] q.op = "findOne"  -> IF hits = <<>> THEN Val("null", "") ELSE Val("product", Head(hits))
      [] q.op = "distinct" -> Val("categories", Distinct(docs))
      [] OTHER             -> Val("none", "")

(***************************************************************************)
(* Requests and responses.                                                 *)
(***************************************************************************)
\* pc: "free"      no request on this connection
\*     "received"  arrived, handler not yet run
\*     "timer"     /product/:sku: setTimeout(cb, 0) pending
\*     "awaiting"  handler suspended in await on the store
\*     "done"      handler finished
\*     "abandoned" the callback's promise rejected and nothing caught it
FreeReq ==
    [ route   |-> "", param |-> "", pc |-> "free",
      started |-> "none",      \* ConnectionState when the handler started: "down", "up"
      query   |-> NoQuery,     \* the query issued on the collection
      nq      |-> 0,           \* number of store calls made for this request
      reply   |-> "none",      \* the store's answer: "ok", "err"
      cause   |-> NoErr,       \* the error of an "err" answer
      status  |-> 0, body |-> NoBody,
      nsent   |-> 0,           \* number of times a response was sent
      log     |-> <<>> ]       \* req.log records

LogRec(level, statusCode, err, error_type, detail) ==
    [level |-> level, statusCode |-> statusCode, err |-> err,
     error_type |-> error_type, detail |-> detail]

\* res.status(code).send(body) / res.json(body): the first send is the response
Send(r, code, body) ==
    IF r.nsent = 0
    THEN [r EXCEPT !.status = code, !.body = body, !.nsent = 1]
    ELSE [r EXCEPT !.nsent = @ + 1]

\* logWarn(req, res, details)
LogWarn(r, error_type, detail) ==
    [r EXCEPT !.log = Append(@, LogRec("warn", r.status, NoErr, error_type, detail))]

\* logError(req, res, error, details)
LogError(r, err, error_type, detail) ==
    [r EXCEPT !.log = Append(@, LogRec("error", r.status, err, error_type, detail))]

\* req.log.error('ERROR', e) of the unnamed variant
LogPlainError(r, err) ==
    [r EXCEPT !.log = Append(@, LogRec("error", 0, err, "", ""))]

\* JSON.stringify of an error object: its enumerable own properties
JsonOfError(e) == Val("error", e.code)

\* the /health body
HealthBodyAlwaysUp(connected) == Val("health", [app |-> "OK", mongo |-> TRUE])
HealthBody(connected) == Val("health", [app |-> "OK", mongo |-> connected])

\* the availability gate: if (!this.mongoConnected)
UnavailableNever == FALSE
Unavailable == ~mongoConnected

\* the gate's branch: 500 'database not available' (and DEPENDENCY_DOWN in app.js)
DependencyDown(r) ==
    LET sent == Send(r, 500, Val("text", "database not available")) IN
    IF impl = "app" THEN LogError(sent, NullErr, "DEPENDENCY_DOWN", "mongodb") ELSE sent

ErrorTypeOf(route) ==
    CASE route = "/products"      -> "FETCH_PRODUCTS_FAILED"
      [] route = "/product/:sku"  -> "FETCH_PRODUCT_FAILED"
      [] route = "/products/:cat" -> "FETCH_CATEGORY_FAILED"
      [] route = "/categories"    -> "FETCH_CATEGORIES_FAILED"
      [] OTHER                    -> "SEARCH_FAILED"

\* the body of the catch block's response
InternalErrorBodyLeaky(e) == JsonOfError(e)
InternalErrorBody(e) ==
    IF impl = "app" THEN Val("text", "internal error") ELSE JsonOfError(e)

\* catch (e) { ... } of a data route
Catch(r, e) ==
    IF impl = "app"
    THEN LogError(Send(r, 500, InternalErrorBody(e)), e, ErrorTypeOf(r.route), "")
    ELSE Send(LogPlainError(r, e), 500, InternalErrorBody(e))

\* if (!product) / else of /product/:sku
IsMissNever(result) == FALSE
IsMiss(result) == result.kind = "null"

\* products.length === 0 of /products/:cat
IsEmptyNever(result) == FALSE
IsEmpty(result) == result.kind = "products" /\ Len(result.val) = 0

SkuNotFound(r) ==
    LET sent == Send(r, 404, Val("text", "SKU not found")) IN
    IF impl = "app" THEN LogWarn(sent, "SKU_NOT_FOUND", r.param) ELSE sent

CategoryEmpty(r) ==
    LET sent == Send(r, 404, Val("text", "No products for " \o r.param)) IN
    IF impl = "app" THEN LogWarn(sent, "CATEGORY_EMPTY", r.param) ELSE sent

\* the continuation of the await when the store resolves with result
OnResult(r, result) ==
    CASE r.route = "/product/:sku" /\ IsMiss(result)   -> SkuNotFound(r)
      [] r.route = "/products/:cat" /\ IsEmpty(result) -> CategoryEmpty(r)
      [] OTHER                                         -> Send(r, 200, result)

(***************************************************************************)
(* Initial state: the state the constructor leaves.                        *)
(***************************************************************************)
Init ==
    /\ impl \in Impls
    /\ mockCollections \in BOOLEAN
    /\ products \in Collections
    /\ mongoConnected = mockCollections
    /\ collection = IF mockCollections THEN "mock" ELSE "undefined"
    \* startMongoLoop() calls tryConnect(), which calls MongoClient.connect
    /\ supPc = IF mockCollections THEN "off" ELSE "connecting"
    /\ attempts = IF mockCollections THEN 0 ELSE 1
    /\ failures = 0
    \* connected: info 'MongoDB connected'; failed: error 'MongoDB connection
    \* failed' (app.js); plain: error 'ERROR' (the unnamed variant)
    /\ logger = [connected |-> 0, failed |-> 0, plain |-> 0]
    \* inflight: MongoClient.connect calls not yet settled; timers: retry timers
    \* pending; scheduled: retry timers set so far; delay: of the last one set
    /\ loop = [inflight |-> IF mockCollections THEN 0 ELSE 1,
               timers |-> 0, scheduled |-> 0, delay |-> 0]
    /\ writes = [flag |-> 0, handle |-> 0]
    /\ process = "running"
    /\ unhandled = 0
    /\ req = [i \in ReqIds |-> FreeReq]

(***************************************************************************)
(* The connect-retry loop.                                                 *)
(***************************************************************************)
\* ConnectSucceeds of a loop that checks again after every attempt
ConnectSucceedsReschedules ==
    /\ process = "running"
    /\ supPc = "connecting"
    /\ collection' = "products"
    /\ mongoConnected' = TRUE
    /\ writes' = [flag |-> writes.flag + 1, handle |-> writes.handle + 1]
    /\ logger' = [logger EXCEPT !.connected = @ + 1]
    /\ loop' = [loop EXCEPT !.inflight = @ - 1, !.timers = @ + 1,
                            !.scheduled = @ + 1, !.delay = BackoffMs]
    /\ supPc' = "backoff"
    /\ UNCHANGED <<impl, mockCollections, products, attempts, failures,
                   process, unhandled, req>>

\* ConnectSucceeds of a mongoConnect that raises the flag and leaves the
\* collection handle unbound
ConnectSucceedsFlagOnly ==
    /\ process = "running"
    /\ supPc = "connecting"
    /\ collection' = collection
    /\ mongoConnected' = TRUE
    /\ writes' = [writes EXCEPT !.flag = @ + 1]
    /\ logger' = [logger EXCEPT !.connected = @ + 1]
    /\ loop' = [loop EXCEPT !.inflight = @ - 1]
    /\ supPc' = "exited"
    /\ UNCHANGED <<impl, mockCollections, products, attempts, failures,
                   process, unhandled, req>>

\* MongoClient.connect resolves: the rest of mongoConnect runs
ConnectSucceeds ==
    /\ process = "running"
    /\ supPc = "connecting"
    /\ collection' = "products"
    /\ mongoConnected' = TRUE
    /\ writes' = [flag |-> writes.flag + 1, handle |-> writes.handle + 1]
    /\ logger' = [logger EXCEPT !.connected = @ + 1]
    /\ loop' = [loop EXCEPT !.inflight = @ - 1]
    /\ supPc' = "exited"
    /\ UNCHANGED <<impl, mockCollections, products, attempts, failures,
                   process, unhandled, req>>

\* a catch that logs nothing
LoggedNothing == logger

\* this.logger.error({ err: e }, 'MongoDB connection failed'), or
\* this.logger.error('ERROR', e) in the unnamed variant
LoggedFailure ==
    IF impl = "app" THEN [logger EXCEPT !.failed = @ + 1]
                    ELSE [logger EXCEPT !.plain = @ + 1]

\* ConnectFails of a loop that logs the failure and gives up
ConnectFailsGivesUp ==
    /\ process = "running"
    /\ supPc = "connecting"
    /\ attempts < MaxAttempts
    /\ failures' = failures + 1
    /\ logger' = LoggedFailure
    /\ loop' = [loop EXCEPT !.inflight = @ - 1]
    /\ supPc' = "exited"
    /\ UNCHANGED <<impl, mockCollections, products, mongoConnected, collection,
                   attempts, writes, process, unhandled, req>>

\* MongoClient.connect rejects: the catch of tryConnect logs and sets the timer
ConnectFails ==
    /\ process = "running"
    /\ supPc = "connecting"
    /\ attempts < MaxAttempts
    /\ failures' = failures + 1
    /\ logger' = LoggedFailure
    /\ loop' = [loop EXCEPT !.inflight = @ - 1, !.timers = @ + 1,
                            !.scheduled = @ + 1, !.delay = BackoffMs]
    /\ supPc' = "backoff"
    /\ UNCHANGED <<impl, mockCollections, products, mongoConnected, collection,
                   attempts, writes, process, unhandled, req>>

\* setTimeout(tryConnect, 2000) fires
BackoffFires ==
    /\ process = "running"
    /\ supPc = "backoff"
    /\ attempts' = attempts + 1
    /\ loop' = [loop EXCEPT !.timers = @ - 1, !.inflight = @ + 1]
    /\ supPc' = "connecting"
    /\ UNCHANGED <<impl, mockCollections, products, mongoConnected, collection,
                   failures, logger, writes, process, unhandled, req>>

(***************************************************************************)
(* Request handling.                                                       *)
(***************************************************************************)
\* a request arrives on a free connection
Receive(i, route, param) ==
    /\ process = "running"
    /\ req[i].pc = "free"
    /\ req' = [req EXCEPT ![i] = [FreeReq EXCEPT !.route = route, !.param = param,
                                                 !.pc = "received"]]
    /\ UNCHANGED <<impl, mockCollections, products, mongoConnected, collection,
                   supPc, attempts, failures, logger, loop, writes, process, unhandled>>

\* Started of handlers whose gate sends the 500 and does not return
StartedNoReturn(r) ==
    LET s == [r EXCEPT !.started = IF mongoConnected THEN "up" ELSE "down"]
        g == IF Unavailable THEN DependencyDown(s) ELSE s IN
    IF r.route = "/health"
    THEN [Send(s, 200, HealthBody(mongoConnected)) EXCEPT !.pc = "done"]
    ELSE IF r.route = "/product/:sku"
    THEN [g EXCEPT !.pc = "timer"]
    ELSE IF collection = "undefined"
    THEN [Catch(g, ErrType) EXCEPT !.pc = "done"]
    ELSE [g EXCEPT !.query = QueryOf(r.route, r.param), !.nq = @ + 1, !.pc = "awaiting"]

\* the request record after the synchronous part of its handler
Started(r) ==
    LET s == [r EXCEPT !.started = IF mongoConnected THEN "up" ELSE "down"] IN
    IF r.route = "/health"
    THEN [Send(s, 200, HealthBody(mongoConnected)) EXCEPT !.pc = "done"]
    ELSE IF Unavailable
    THEN [DependencyDown(s) EXCEPT !.pc = "done"]
    ELSE IF r.route = "/product/:sku"
    THEN [s EXCEPT !.pc = "timer"]
    ELSE IF collection = "undefined"
    THEN [Catch(s, ErrType) EXCEPT !.pc = "done"]
    ELSE [s EXCEPT !.query = QueryOf(r.route, r.param), !.nq = @ + 1, !.pc = "awaiting"]

\* HandlerStart of a handler that waits for the connect loop to finish
HandlerStartAfterConnect(i) ==
    /\ process = "running"
    /\ req[i].pc = "received"
    /\ supPc \notin {"connecting", "backoff"}
    /\ req' = [req EXCEPT ![i] = Started(req[i])]
    /\ UNCHANGED <<impl, mockCollections, products, mongoConnected, collection,
                   supPc, attempts, failures, logger, loop, writes, process, unhandled>>

\* Express calls the route's handler, which runs up to its first await
HandlerStart(i) ==
    /\ process = "running"
    /\ req[i].pc = "received"
    /\ req' = [req EXCEPT ![i] = Started(req[i])]
    /\ UNCHANGED <<impl, mockCollections, products, mongoConnected, collection,
                   supPc, attempts, failures, logger, loop, writes, process, unhandled>>

\* a promise rejects with no handler: Node warns (before 15) or ends the process
Uncaught(i, r) ==
    /\ req' = [req EXCEPT ![i] = [r EXCEPT !.pc = "abandoned"]]
    /\ unhandled' = unhandled + 1
    /\ process' \in {"running", "exited"}

\* the setTimeout callback of /product/:sku runs and calls findOne
TimerFires(i) ==
    /\ process = "running"
    /\ req[i].pc = "timer"
    /\ IF collection = "undefined"
       THEN Uncaught(i, req[i])
       ELSE /\ req' = [req EXCEPT ![i].query = QueryOf(req[i].route, req[i].param),
                                  ![i].nq = @ + 1, ![i].pc = "awaiting"]
            /\ UNCHANGED <<process, unhandled>>
    /\ UNCHANGED <<impl, mockCollections, products, mongoConnected, collection,
                   supPc, attempts, failures, logger, loop, writes>>

\* the store call resolves and the handler continues after its await
StoreResolves(i) ==
    /\ process = "running"
    /\ req[i].pc = "awaiting"
    /\ req' = [req EXCEPT ![i] =
                 [OnResult([req[i] EXCEPT !.reply = "ok"], Eval(req[i].query, products))
                    EXCEPT !.pc = "done"]]
    /\ UNCHANGED <<impl, mockCollections, products, mongoConnected, collection,
                   supPc, attempts, failures, logger, loop, writes, process, unhandled>>

\* the request record after a rejected store call that a catch block handles
Rejected(r, e) == [Catch([r EXCEPT !.reply = "err", !.cause = e], e) EXCEPT !.pc = "done"]

\* StoreRejects with a catch that also marks the store as down
StoreRejectsDisconnects(i, e) ==
    /\ process = "running"
    /\ req[i].pc = "awaiting"
    /\ req[i].route # "/product/:sku"
    /\ req' = [req EXCEPT ![i] = Rejected(req[i], e)]
    /\ mongoConnected' = FALSE
    /\ UNCHANGED <<impl, mockCollections, products, collection,
                   supPc, attempts, failures, logger, loop, writes, process, unhandled>>

\* the store call rejects with e: the await throws.  In /product/:sku the
\* await is inside the timer callback, outside the handler's try
StoreRejects(i, e) ==
    /\ process = "running"
    /\ req[i].pc = "awaiting"
    /\ IF req[i].route = "/product/:sku"
       THEN Uncaught(i, [req[i] EXCEPT !.reply = "err", !.cause = e])
       ELSE /\ req' = [req EXCEPT ![i] = Rejected(req[i], e)]
            /\ UNCHANGED <<process, unhandled>>
    /\ UNCHANGED <<impl, mockCollections, products, mongoConnected, collection,
                   supPc, attempts, failures, logger, loop, writes>>

\* the client has its response and the connection takes the next request
Release(i) ==
    /\ process = "running"
    /\ req[i].pc = "done"
    /\ req' = [req EXCEPT ![i] = FreeReq]
    /\ UNCHANGED <<impl, mockCollections, products, mongoConnected, collection,
                   supPc, attempts, failures, logger, loop, writes, process, unhandled>>

Next ==
    \/ ConnectSucceeds
    \/ ConnectFails
    \/ BackoffFires
    \/ \E i \in ReqIds : \E route \in Routes : \E param \in ParamsOf(route) :
           Receive(i, route, param)
    \/ \E i \in ReqIds : HandlerStart(i)
    \/ \E i \in ReqIds : TimerFires(i)
    \/ \E i \in ReqIds : StoreResolves(i)
    \/ \E i \in ReqIds : \E e \in Errors : StoreRejects(i, e)
    \/ \E i \in ReqIds : Release(i)

\* both variants of the application
Spec == Init /\ [][Next]_vars

\* src/catalogue/src/app.js alone
InitApp == Init /\ impl = "app"
SpecApp == InitApp /\ [][Next]_vars

\* The loop against the real store, on the two products of the test fixture.
\* Node runs a timer that is due and the continuation of a settled promise,
\* and the driver settles every connect; the store refuses fewer than
\* MaxAttempts connects in a row (the guard of ConnectFails).
InitRetry == Init /\ ~mockCollections /\ products = <<P1, P2>>
RetryFairness ==
    /\ WF_vars(BackoffFires)
    /\ WF_vars(ConnectSucceeds \/ ConnectFails)
SpecRetry == InitRetry /\ [][Next]_vars /\ RetryFairness

(***************************************************************************)
(* Properties.                                                             *)
(***************************************************************************)
DataRoutes == Routes \ {"/health"}

Text(str) == Val("text", str)

\* the requests whose handler has run
Handled == { i \in ReqIds : req[i].started # "none" }

\* C1: a data-route request whose handler starts while mongoConnected is
\* false is answered 500 'database not available' in that same step, and no
\* store query is ever issued for it, whatever the connect-retry loop does
\* before or after.
C1_DisconnectedShortCircuits ==
    \A i \in ReqIds :
        (req[i].route \in DataRoutes /\ req[i].started = "down") =>
            /\ req[i].pc = "done"
            /\ req[i].status = 500
            /\ SameVal(req[i].body, Text("database not available"))
            /\ req[i].nsent = 1
            /\ req[i].nq = 0
            /\ req[i].query = NoQuery

\* every data route was refused while disconnected at some point; here two of
\* them, one on each side of a successful connect
C1_Witness ==
    /\ mongoConnected
    /\ req["r1"].route = "/product/:sku" /\ req["r1"].started = "down"
    /\ req["r1"].status = 500
    /\ req["r2"].route = "/search/:text" /\ req["r2"].started = "up"
    /\ req["r2"].pc = "awaiting"

\* C2: GET /health answers 200 with {app: 'OK', mongo: b}, b the value of
\* mongoConnected when the handler ran, and issues no store query, in every
\* state of the connect-retry loop and of the store.
C2_HealthReflectsState ==
    \A i \in ReqIds :
        (req[i].route = "/health" /\ req[i].started # "none") =>
            /\ req[i].pc = "done"
            /\ req[i].status = 200
            /\ req[i].body.kind = "health"
            /\ req[i].body.val = [app |-> "OK", mongo |-> (req[i].started = "up")]
            /\ req[i].nsent = 1
            /\ req[i].nq = 0
            /\ req[i].query = NoQuery

\* one health answer given during a backoff and one after the connect, while
\* nothing was yet connected for the first
C2_Witness ==
    /\ req["r1"].route = "/health" /\ req["r1"].started = "down"
    /\ req["r1"].body.kind = "health" /\ req["r1"].body.val.mongo = FALSE
    /\ req["r2"].route = "/health" /\ req["r2"].started = "up"
    /\ req["r2"].body.kind = "health" /\ req["r2"].body.val.mongo = TRUE
    /\ failures = 2

\* the requests the store has answered with an error
Failed == { i \in ReqIds : req[i].reply = "err" }

\* C3: no request is silently dropped: once the store call made for a request
\* has completed (result, miss or error), the request has its response, and no
\* request is left where no step can answer it any more.
C3_EveryRequestAnswered ==
    \A i \in ReqIds :
        /\ req[i].reply # "none" => req[i].nsent >= 1
        /\ req[i].pc # "abandoned"

\* C4: a store call that throws or rejects under a data route is caught by the
\* handler: the request is answered 500 'internal error', an ERROR record with
\* the cause is logged, and no rejection is left unhandled.
C4_FailuresCaughtAtHandler ==
    /\ unhandled = 0
    /\ \A i \in Failed :
        /\ req[i].pc = "done"
        /\ req[i].status = 500
        /\ SameVal(req[i].body, Text("internal error"))
        /\ \E k \in DOMAIN req[i].log :
               req[i].log[k].level = "error" /\ req[i].log[k].err = req[i].cause

\* C5: two requests to the same route that differ only in the cause of the
\* store failure get the same response: the error value reaches no body.
C5_NoCauseInResponse ==
    \A i, j \in Failed :
        ( /\ req[i].route = req[j].route
          /\ req[i].param = req[j].param
          /\ req[i].started = req[j].started ) =>
            /\ req[i].status = req[j].status
            /\ SameVal(req[i].body, req[j].body)

\* the requests the store has answered with a result
Answered == { i \in ReqIds : req[i].reply = "ok" /\ req[i].pc = "done" }

\* the positions of the documents whose categories array holds cat
InCategory(cat) ==
    { k \in DOMAIN products : \E c \in DOMAIN products[k].categories :
                                  products[k].categories[c] = cat }

\* the positions of the documents the text index matches for text
MatchingText(text) == { k \in DOMAIN products : text \in products[k].terms }

\* C6: with a successful store call and zero matching products,
\* GET /products/:cat answers 404 'No products for <cat>', while
\* GET /search/:text and GET /search answer 200 with an empty array.
C6_ZeroMatchAsymmetry ==
    \A i \in Answered :
        /\ (req[i].route = "/products/:cat" /\ InCategory(req[i].param) = {}) =>
               /\ req[i].status = 404
               /\ SameVal(req[i].body, Text("No products for " \o req[i].param))
        /\ (req[i].route = "/products/:cat" /\ req[i].status = 200) =>
               InCategory(req[i].param) # {}
        /\ (req[i].route = "/search/:text" /\ MatchingText(req[i].param) = {}) =>
               /\ req[i].status = 200
               /\ SameVal(req[i].body, Val("products", <<>>))
        /\ (req[i].route = "/search" /\ products = <<>>) =>
               /\ req[i].status = 200
               /\ SameVal(req[i].body, Val("products", <<>>))

\* on a collection that is not empty: a category with no product answered 404
\* next to a text with no hit answered 200 []
C6_Witness ==
    /\ products # <<>>
    /\ req["r1"].route = "/products/:cat" /\ req["r1"].reply = "ok"
    /\ req["r1"].status = 404
    /\ req["r2"].route = "/search/:text" /\ req["r2"].reply = "ok"
    /\ req["r2"].status = 200 /\ SameVal(req["r2"].body, Val("products", <<>>))

\* C7: with a successful store call, GET /product/:sku answers 200 with the
\* product whose sku is the requested one when the collection holds it, and
\* otherwise 404 'SKU not found' with one WARN record carrying the sku; it
\* never answers with a product of another sku.
C7_GetBySku ==
    \A i \in Answered :
        req[i].route = "/product/:sku" =>
            IF \E k \in DOMAIN products : products[k].sku = req[i].param
            THEN /\ req[i].status = 200
                 /\ req[i].body.kind = "product"
                 /\ req[i].body.val.sku = req[i].param
                 /\ \E k \in DOMAIN products : products[k] = req[i].body.val
                 /\ req[i].log = <<>>
            ELSE /\ req[i].status = 404
                 /\ SameVal(req[i].body, Text("SKU not found"))
                 /\ Len(req[i].log) = 1
                 /\ req[i].log[1].level = "warn"
                 /\ req[i].log[1].detail = req[i].param
                 /\ req[i].log[1].statusCode = 404

\* the second document of a two-document collection found by its sku, next to
\* a miss
C7_Witness ==
    /\ Len(products) = 2
    /\ req["r1"].route = "/product/:sku" /\ req["r1"].status = 200
    /\ req["r1"].body.kind = "product" /\ req["r1"].body.val = products[2]
    /\ req["r2"].route = "/product/:sku" /\ req["r2"].status = 404

\* C8: with a successful store call and at least one match, GET /products/:cat
\* answers 200 with exactly the products whose categories hold the requested
\* category, each once, in ascending order of name.
C8_ListByCategory ==
    \A i \in Answered :
        (req[i].route = "/products/:cat" /\ InCategory(req[i].param) # {}) =>
            /\ req[i].status = 200
            /\ req[i].body.kind = "products"
            /\ Len(req[i].body.val) = Cardinality(InCategory(req[i].param))
            /\ \A k \in InCategory(req[i].param) : InSeq(products[k], req[i].body.val)
            /\ \A n \in DOMAIN req[i].body.val :
                   \E k \in InCategory(req[i].param) : products[k] = req[i].body.val[n]
            /\ \A m, n \in DOMAIN req[i].body.val :
                   m < n => req[i].body.val[m].name <= req[i].body.val[n].name

\* two matches that the collection holds in descending order of name
C8_Witness ==
    \E i \in Answered :
        /\ req[i].route = "/products/:cat"
        /\ req[i].status = 200
        /\ Len(req[i].body.val) = 2
        /\ Len(products) = 2
        /\ products[1].name > products[2].name

\* the requests whose handler has finished
Done == { i \in ReqIds : req[i].pc = "done" }

SameResponse(i, j) ==
    /\ req[i].status = req[j].status
    /\ SameVal(req[i].body, req[j].body)

\* C9: GET /products and GET /search are equivalent: started in the same
\* ConnectionState they issue the same store query (or none), and given the
\* same store reply they answer with the same status and body, which on
\* success is the whole collection.
C9_SearchEqualsListAll ==
    /\ \A i, j \in Handled :
        ( /\ req[i].route = "/products" /\ req[j].route = "/search"
          /\ req[i].started = req[j].started ) =>
            /\ req[i].query = req[j].query
            /\ req[i].nq = req[j].nq
            /\ ( /\ i \in Done /\ j \in Done
                 /\ req[i].reply = req[j].reply
                 /\ req[i].cause = req[j].cause ) => SameResponse(i, j)
    /\ \A i \in Answered :
        req[i].route \in {"/products", "/search"} =>
            /\ req[i].status = 200
            /\ SameVal(req[i].body, Val("products", products))

\* both answered on a collection of two products
C9_Witness ==
    /\ Len(products) = 2
    /\ req["r1"].route = "/products" /\ req["r1"].status = 200
    /\ req["r2"].route = "/search" /\ req["r2"].status = 200
    /\ req["r1"].body.kind = "products" /\ Len(req["r1"].body.val) = 2

\* C10 as stated: two requests for the same route and parameter, handled in
\* the same ConnectionState on the same product set, get the same status and
\* body.
C10_SameRequestSameResponse ==
    \A i, j \in Done :
        ( /\ req[i].route = req[j].route
          /\ req[i].param = req[j].param
          /\ req[i].started = req[j].started ) => SameResponse(i, j)

\* C10 as amended: two requests for the same route and parameter, handled in
\* the same ConnectionState on the same product set and given the same store
\* reply (the same result or the same error), get the same status and body;
\* and no step of request handling changes the product set, mongoConnected or
\* the collection handle.
C10_Idempotent ==
    /\ [](\A i, j \in Done :
            ( /\ req[i].route = req[j].route
              /\ req[i].param = req[j].param
              /\ req[i].started = req[j].started
              /\ req[i].reply = req[j].reply
              /\ req[i].cause = req[j].cause ) => SameResponse(i, j))
    /\ [][req' # req => UNCHANGED <<products, mongoConnected, collection>>]_vars

\* the same category request answered twice with the same two products, after
\* a real connect
C10_Witness ==
    /\ mongoConnected
    /\ req["r1"].route = "/products/:cat" /\ req["r2"].route = "/products/:cat"
    /\ req["r1"].param = req["r2"].param
    /\ req["r1"].reply = "ok" /\ req["r2"].reply = "ok"
    /\ req["r1"].status = 200 /\ req["r2"].status = 200
    /\ Len(req["r1"].body.val) = 2
    /\ supPc = "exited"

\* C11: ConnectionState is write-once and monotonic.  Without a mock collection
\* the state is Disconnected from construction until a connect succeeds; the
\* flag turns true only in the step in which a connect in flight resolves;
\* mongoConnected and collection are each assigned at most once after
\* construction; and once true the flag stays true, whatever the store answers
\* to later queries.
C11_WriteOnceMonotonic ==
    /\ [](~mockCollections =>
            /\ mongoConnected = (writes.flag = 1)
            /\ (collection # "undefined") = (writes.handle = 1))
    /\ [](writes.flag <= 1 /\ writes.handle <= 1)
    /\ [][(~mongoConnected /\ mongoConnected') =>
            /\ supPc = "connecting" /\ loop.inflight = 1
            /\ loop'.inflight = 0
            /\ collection' # "undefined"]_vars
    /\ [][mongoConnected => mongoConnected']_vars
    /\ [][collection # "undefined" => collection' = collection]_vars

\* connected by the loop after a refused attempt, and still Connected after
\* the store failed two queries
C11_Witness ==
    /\ ~mockCollections /\ mongoConnected /\ writes.flag = 1
    /\ failures >= 1
    /\ \A i \in ReqIds : req[i].reply = "err"

\* C12: the connect-retry loop is one-shot.  An attempt starts only at loop
\* start or when the backoff timer (2000 ms) of a failed attempt fires, all
\* earlier attempts having failed; each failed attempt sets exactly one timer;
\* at most one attempt is in flight or one timer pending at any time; after
\* the successful attempt no attempt starts and no timer is set.
C12_OneShotRetryLoop ==
    /\ [](/\ loop.inflight + loop.timers <= 1
          /\ loop.scheduled = failures
          /\ loop.timers = 1 => loop.delay = BackoffMs
          /\ attempts = failures + loop.inflight + writes.flag
          /\ mockCollections => attempts = 0)
    /\ [][attempts' # attempts =>
            /\ attempts' = attempts + 1
            /\ failures = attempts
            /\ loop.timers = 1 /\ loop'.timers = 0 /\ loop'.inflight = 1]_vars
    /\ [][failures' # failures =>
            /\ failures' = failures + 1
            /\ loop.inflight = 1 /\ loop'.inflight = 0
            /\ loop'.timers = 1 /\ loop'.scheduled = loop.scheduled + 1]_vars
    /\ [][writes.flag >= 1 => (attempts' = attempts /\ loop' = loop)]_vars

\* the third attempt succeeded after two timers, and requests go on
C12_Witness ==
    /\ supPc = "exited" /\ attempts = 3 /\ failures = 2
    /\ loop = [inflight |-> 0, timers |-> 0, scheduled |-> 2, delay |-> BackoffMs]
    /\ \E i \in ReqIds : req[i].started = "up" /\ req[i].pc = "done"

\* C13: the loop retries until it connects.  While the state is Disconnected
\* against the real store, a connect is in flight or a retry timer is pending,
\* after any number of failures; so when the timer and the completion of
\* connects are weakly fair and the store accepts a connect in the end, the
\* state becomes Connected.
C13_RetriesUntilConnected ==
    /\ [](~mongoConnected =>
            /\ process = "running"
            /\ loop.inflight + loop.timers = 1
            /\ ENABLED (BackoffFires \/ ConnectSucceeds \/ ConnectFails))
    /\ <>mongoConnected

\* connected at the third attempt
C13_Witness ==
    /\ ~mockCollections /\ mongoConnected
    /\ failures = 2 /\ loop.scheduled = 2 /\ loop.inflight = 0 /\ loop.timers = 0

\* C14: no request sees a half-connected state.  Whenever mongoConnected is
\* true the collection handle is bound, so a handler that passed the gate
\* calls the store on a bound collection, the /product/:sku callback one timer
\* tick later included: no such request ends in the TypeError of a call on
\* undefined, each has issued its one query once past the timer, and each
\* that finished was answered from a store reply.
C14_NeverPartiallyConnected ==
    /\ mongoConnected => collection # "undefined"
    /\ \A i \in ReqIds :
        (req[i].started = "up" /\ req[i].route \in DataRoutes) =>
            /\ collection # "undefined"
            /\ req[i].cause # ErrType
            /\ \A k \in DOMAIN req[i].log : req[i].log[k].err # ErrType
            /\ req[i].pc \in {"awaiting", "done", "abandoned"} =>
                   /\ req[i].nq = 1
                   /\ req[i].query = QueryOf(req[i].route, req[i].param)
            /\ req[i].pc \in {"done", "abandoned"} => req[i].reply # "none"

\* a request refused during the connect, and a /product/:sku request that
\* passed the gate after it and has its findOne in flight
C14_Witness ==
    /\ ~mockCollections
    /\ req["r1"].route = "/product/:sku" /\ req["r1"].started = "down"
    /\ req["r2"].route = "/product/:sku" /\ req["r2"].started = "up"
    /\ req["r2"].pc = "awaiting" /\ req["r2"].nq = 1

\* a connect attempt is in flight or a backoff timer is pending
LoopBusy == supPc \in {"connecting", "backoff"}

\* C15: the connect loop never blocks request handling.  While an attempt is
\* in flight or a backoff timer is pending, a request can arrive, its handler
\* can run at once, and that one step completes it (/health with 200, a data
\* route with 500 'database not available') without any step of the loop: no
\* request is ever left waiting for the attempt or the timer.
C15_LoopNeverBlocksRequests ==
    /\ [](LoopBusy =>
            /\ process = "running"
            /\ \A i \in ReqIds :
                /\ req[i].pc \in {"free", "received", "done"}
                /\ req[i].pc = "free" => ENABLED Receive(i, "/products", "")
                /\ req[i].pc = "received" => ENABLED HandlerStart(i))
    /\ [][\A i \in ReqIds :
            (LoopBusy /\ req[i].pc = "received" /\ req'[i] # req[i]) =>
                /\ UNCHANGED <<supPc, loop, attempts, failures>>
                /\ req'[i].pc = "done"
                /\ req'[i].nsent = 1
                /\ req'[i].status = IF req[i].route = "/health" THEN 200 ELSE 500
                /\ req[i].route # "/health" =>
                       SameVal(req'[i].body, Text("database not available"))]_vars

\* with the second attempt in flight, one request answered during the backoff
\* before it and one just received
C15_Witness ==
    /\ supPc = "connecting" /\ failures = 1
    /\ req["r1"].pc = "done" /\ req["r1"].status = 500 /\ req["r1"].route = "/categories"
    /\ req["r2"].pc = "received"

\* the requests that still wait for a step of their own handler
InFlight == { i \in ReqIds : req[i].pc \in {"received", "timer", "awaiting"} }

\* C16: concurrent requests are independent.  Whatever the other requests and
\* their store replies have done, a request in flight can still take its own
\* next step (its handler, its timer callback, the continuation of its store
\* call), and the response of a finished request is determined by its own
\* route, parameter, ConnectionState at the gate and store reply.
C16_RequestsIndependent ==
    /\ \A j \in InFlight :
           ENABLED (HandlerStart(j) \/ TimerFires(j) \/ StoreResolves(j))
    /\ \A i, j \in Done :
        ( /\ req[i].route = req[j].route
          /\ req[i].param = req[j].param
          /\ req[i].started = req[j].started
          /\ req[i].reply = req[j].reply ) => SameResponse(i, j)

\* C17: the loop's log counts.  The number of 'MongoDB connection failed'
\* error events equals the number of failed connect attempts (the attempts
\* started, less the one in flight and the one that succeeded), and the number
\* of 'MongoDB connected' info events is one once a connect has succeeded and
\* zero before, also when the state is Connected through a mock collection.
C17_LoopLogCounts ==
    /\ logger.failed = attempts - loop.inflight - writes.flag
    /\ logger.failed = failures
    /\ logger.connected = IF mongoConnected /\ ~mockCollections THEN 1 ELSE 0
    /\ logger.connected = writes.flag
    /\ logger.plain = 0

\* two failures and the success logged
C17_Witness ==
    /\ logger = [connected |-> 1, failed |-> 2, plain |-> 0]
    /\ attempts = 3 /\ mongoConnected

\* C18: every failed data-route request is logged with its error_type.  A 500
\* 'database not available' comes with exactly one ERROR record tagged
\* DEPENDENCY_DOWN, dependency 'mongodb'; a 404 with exactly one WARN record
\* carrying the sku or the category; a store failure with exactly one ERROR
\* record carrying the cause; a 200 with no record.
C18_FailuresLogged ==
    \A i \in ReqIds :
        req[i].route \in DataRoutes =>
            /\ (req[i].status = 500 /\ req[i].started = "down") =>
                   req[i].log = <<LogRec("error", 500, NullErr, "DEPENDENCY_DOWN", "mongodb")>>
            /\ req[i].status = 404 =>
                   /\ Len(req[i].log) = 1
                   /\ req[i].log[1].level = "warn"
                   /\ req[i].log[1].statusCode = 404
                   /\ req[i].log[1].detail = req[i].param
                   /\ req[i].log[1].error_type \in {"SKU_NOT_FOUND", "CATEGORY_EMPTY"}
            /\ req[i].reply = "err" =>
                   /\ Len(req[i].log) = 1
                   /\ req[i].log[1].level = "error"
                   /\ req[i].log[1].err = req[i].cause
                   /\ req[i].log[1].error_type = ErrorTypeOf(req[i].route)
            /\ req[i].status = 200 => req[i].log = <<>>

\* C19: at most one response per request.  On every path a request is sent a
\* response at most once, and exactly once when its handler has finished;
\* a request refused at the gate makes no query and gets nothing more; the
\* outer catch of /product/:sku never answers a request its deferred callback
\* answers; and a response once sent stays as it is until the connection
\* takes the next request.
C19_AtMostOneResponse ==
    /\ [](\A i \in ReqIds :
            /\ req[i].nsent <= 1
            /\ req[i].pc = "done" => req[i].nsent = 1
            /\ req[i].pc \in {"received", "timer", "awaiting"} => req[i].nsent = 0
            /\ (req[i].route \in DataRoutes /\ req[i].started = "down") =>
                   (req[i].pc = "done" /\ req[i].nq = 0)
            /\ (req[i].route = "/product/:sku" /\ req[i].started = "up") =>
                   /\ req[i].nsent = 1 => req[i].reply = "ok"
                   /\ \A k \in DOMAIN req[i].log :
                          req[i].log[k].error_type # "FETCH_PRODUCT_FAILED")
    /\ [][\A i \in ReqIds :
            req[i].nsent >= 1 => (req'[i] = req[i] \/ req'[i] = FreeReq)]_vars

\* a /product/:sku request answered by its deferred callback, next to a
\* request that was refused at the gate before the connect
C19_Witness ==
    /\ req["r1"].route = "/product/:sku" /\ req["r1"].started = "up"
    /\ req["r1"].pc = "done" /\ req["r1"].nsent = 1 /\ req["r1"].status = 404
    /\ req["r2"].route = "/products/:cat" /\ req["r2"].started = "down"
    /\ req["r2"].nsent = 1

=============================================================================
